---- MODULE Spec2Model ----
(***************************************************************************)
(* Model of the coreapp catalogue / cart backend (models.py, views.py,     *)
(* admin.py).  The persisted tables are sequences indexed by primary key;  *)
(* every view handler and every model save() is one atomic action, and     *)
(* AddToCartView.get is additionally modelled statement by statement for   *)
(* two concurrent requests.                                                *)
(***************************************************************************)
EXTENDS Integers, Sequences, FiniteSets, TLC

VARIABLES categories, products, customers, carts, cartproducts, resp, req

vars == <<categories, products, customers, carts, cartproducts, resp, req>>

store == <<categories, products, customers, carts, cartproducts>>

(***************************************************************************)
(* Bounds of the model.                                                    *)
(***************************************************************************)
MaxProducts == 2
MaxCustomers == 1
MaxCarts == 2
MaxQuantity == 2
MaxStreak == 2
MaxLatest == 6
MaxOther == 2

(***************************************************************************)
(* Input domains.                                                          *)
(***************************************************************************)
Users == {"u1", "u2"}
Slugs == {"s1", "s2"}
\* 'Ноутбуки' and 'Смартфоны' (transliterated), and a name outside the map
CategoryNames == {"Noutbuki", "Smartfony", "Planshety"}
Prices == {999}

\* Product.MIN_RESOLUTION, Product.MAX_RESOLUTION: (400, 400), (800, 800)
MIN_RESOLUTION == <<400, 400>>
MAX_RESOLUTION == <<800, 800>>

\* image heights and widths around both bounds
Dims == {MIN_RESOLUTION[1] - 1, MIN_RESOLUTION[1], MAX_RESOLUTION[1], MAX_RESOLUTION[1] + 1}
\* an ImageField with no file associated
NoImage == <<>>
Images == {<<h, w>> : h \in Dims, w \in Dims}

\* the model classes of models.py, in definition order (their model_name)
ContentTypes == <<"category", "notebook", "smartphone", "cartproduct", "cart", "customer">>
\* the keys of ProductDetailView.CT_MODEL_MODEL_CLASS
CT_MODEL_MODEL_CLASS == {"notebook", "smartphone"}
\* type tags a URL can carry: the product types, another table, an unknown tag
Tags == {"notebook", "smartphone", "category", "tablet"}

Range(s) == {s[i] : i \in DOMAIN s}

IsContentType(tag) == tag \in Range(ContentTypes)

\* the models that declare a slug field: Category, NoteBook, Smartphone
HasSlugField(ct) == ct \in {"category", "notebook", "smartphone"}

(***************************************************************************)
(* Query helpers: Manager.get() and the rows a filter matches.             *)
(***************************************************************************)
QGet(matching, model) ==
    IF matching = {} THEN [outcome |-> model \o ".DoesNotExist", pk |-> 0]
    ELSE IF Cardinality(matching) > 1
         THEN [outcome |-> model \o ".MultipleObjectsReturned", pk |-> 0]
         ELSE [outcome |-> "ok", pk |-> CHOOSE i \in matching : TRUE]

Table(ct) ==
    IF ct = "category" THEN categories
    ELSE IF ct \in CT_MODEL_MODEL_CLASS THEN products[ct]
    ELSE IF ct = "cartproduct" THEN cartproducts
    ELSE IF ct = "cart" THEN carts
    ELSE customers

WithSlug(rows, slug) == {i \in DOMAIN rows : rows[i].slug = slug}

NProducts == Len(products["notebook"]) + Len(products["smartphone"])

RECURSIVE SumSeq(_)
SumSeq(s) == IF s = <<>> THEN 0 ELSE Head(s) + SumSeq(Tail(s))

(***************************************************************************)
(* The response of the last handler or save() that ran.                    *)
(***************************************************************************)
NoResp ==
    [op |-> "none", outcome |-> "none", user |-> "", tag |-> "", slug |-> "",
     pk |-> 0, image |-> NoImage, cart |-> 0, quantity |-> 0, created |-> FALSE,
     streak |-> 0, args |-> {}, result |-> <<>>]

(***************************************************************************)
(* Category: the default Model.save(); slug is unique.                     *)
(***************************************************************************)
CategoryInsert(name, slug) ==
    IF WithSlug(categories, slug) # {}
    THEN [outcome |-> "IntegrityError", pk |-> 0, categories |-> categories]
    ELSE [outcome |-> "ok", pk |-> Len(categories) + 1,
          categories |-> Append(categories, [name |-> name, slug |-> slug])]

CreateCategory(name, slug) ==
    LET r == CategoryInsert(name, slug) IN
    /\ categories' = r.categories
    /\ resp' = [NoResp EXCEPT !.op = "Category.save", !.outcome = r.outcome,
                              !.slug = slug, !.pk = r.pk]
    /\ UNCHANGED <<products, customers, carts, cartproducts, req>>

(***************************************************************************)
(* Product.save: the image is opened and its resolution validated, then    *)
(* the row is written by Model.save().                                     *)
(***************************************************************************)
\* the same checks with the lower bound excluded (<= for <)
ProductSaveValidateInclusive(image) ==
    IF image = NoImage THEN "ValueError"
    ELSE LET img_height == image[1]
             img_width == image[2]
             min_height == MIN_RESOLUTION[1]
             max_height == MAX_RESOLUTION[1]
         IN  IF img_height <= min_height \/ img_width <= min_height
             THEN "MinResolutionErrorException"
             ELSE IF img_height > max_height \/ img_width > max_height
                  THEN "MaxResolutionErrorException"
                  ELSE "ok"

\* lines 92-99: Image.open(self.image) and the two resolution checks; both
\* dimensions are compared with min_height and with max_height
ProductSaveValidate(image) ==
    IF image = NoImage THEN "ValueError"
    ELSE LET img_height == image[1]
             img_width == image[2]
             min_height == MIN_RESOLUTION[1]
             max_height == MAX_RESOLUTION[1]
         IN  IF img_height < min_height \/ img_width < min_height
             THEN "MinResolutionErrorException"
             ELSE IF img_height > max_height \/ img_width > max_height
                  THEN "MaxResolutionErrorException"
                  ELSE "ok"

\* line 100, super().save(): insert (pk = 0) or update; slug is unique per table
ModelSave(tag, pk, row) ==
    IF WithSlug(products[tag], row.slug) \ {pk} # {}
    THEN [outcome |-> "IntegrityError", pk |-> 0, products |-> products]
    ELSE IF pk = 0
         THEN [outcome |-> "ok", pk |-> Len(products[tag]) + 1,
               products |-> [products EXCEPT ![tag] = Append(@, row)]]
         ELSE [outcome |-> "ok", pk |-> pk,
               products |-> [products EXCEPT ![tag][pk] = row]]

\* a save() that writes the row before it looks at the image
ProductSaveRunWriteFirst(tag, pk, row) ==
    LET saved == ModelSave(tag, pk, row)
        v == ProductSaveValidate(row.image)
    IN  IF v # "ok" THEN [saved EXCEPT !.outcome = v] ELSE saved

ProductSaveRun(tag, pk, row) ==
    LET v == ProductSaveValidate(row.image) IN
    IF v # "ok" THEN [outcome |-> v, pk |-> 0, products |-> products]
    ELSE ModelSave(tag, pk, row)

ProductSave(tag, pk, row) ==
    /\ pk \in 0..Len(products[tag])
    /\ pk = 0 => NProducts < MaxProducts
    /\ LET r == ProductSaveRun(tag, pk, row) IN
       /\ products' = r.products
       /\ resp' = [NoResp EXCEPT !.op = "Product.save", !.outcome = r.outcome,
                                 !.pk = pk, !.image = row.image]
    /\ UNCHANGED <<categories, customers, carts, cartproducts, req>>

(***************************************************************************)
(* CategoryManager.get_categories_for_left_sidebar                         *)
(***************************************************************************)
CATEGORY_NAME_COUNT_NAME ==
    [Noutbuki |-> "notebook__count", Smartfony |-> "smartphone__count"]

InCategory(tag, c) == {i \in DOMAIN products[tag] : products[tag][i].category = c}

Max(a, b) == IF a >= b THEN a ELSE b

\* annotate(Count('notebook'), Count('smartphone')): both reverse relations are
\* LEFT JOINed in one query, so each count is taken over the joined rows
Annotate(c) ==
    LET n == Cardinality(InCategory("notebook", c))
        s == Cardinality(InCategory("smartphone", c))
    IN  [name |-> categories[c].name, slug |-> categories[c].slug,
         notebook__count |-> n * Max(s, 1), smartphone__count |-> s * Max(n, 1)]

get_categories_for_left_sidebar ==
    IF \E c \in DOMAIN categories : categories[c].name \notin DOMAIN CATEGORY_NAME_COUNT_NAME
    THEN [outcome |-> "KeyError", result |-> <<>>]
    ELSE [outcome |-> "ok",
          result |-> [c \in DOMAIN categories |->
                        LET a == Annotate(c) IN
                        [name |-> a.name, slug |-> a.slug,
                         count |-> a[CATEGORY_NAME_COUNT_NAME[a.name]]]]]

Sidebar ==
    LET r == get_categories_for_left_sidebar IN
    /\ resp' = [NoResp EXCEPT !.op = "sidebar", !.outcome = r.outcome, !.result = r.result]
    /\ UNCHANGED <<store, req>>

(***************************************************************************)
(* Customer and Cart rows: the default Model.save().                       *)
(***************************************************************************)
CreateCustomer(user) ==
    /\ Len(customers) < MaxCustomers
    /\ customers' = Append(customers, [user |-> user])
    /\ resp' = [NoResp EXCEPT !.op = "Customer.save", !.outcome = "ok", !.user = user,
                              !.pk = Len(customers) + 1]
    /\ UNCHANGED <<categories, products, carts, cartproducts, req>>

CreateCart(owner, in_order) ==
    /\ Len(carts) < MaxCarts
    /\ owner \in DOMAIN customers
    /\ carts' = Append(carts, [owner |-> owner, total_products |-> 0, total_price |-> 0,
                               in_order |-> in_order])
    /\ resp' = [NoResp EXCEPT !.op = "Cart.save", !.outcome = "ok", !.pk = Len(carts) + 1]
    /\ UNCHANGED <<categories, products, customers, cartproducts, req>>

CustomerGet(user) ==
    QGet({i \in DOMAIN customers : customers[i].user = user}, "Customer")

\* Cart.objects.get(owner=customer, in_order=False)
ActiveCarts(owner) == {i \in DOMAIN carts : carts[i].owner = owner /\ ~carts[i].in_order}

\* Cart.objects.get(owner=customer)
OwnedCarts(owner) == {i \in DOMAIN carts : carts[i].owner = owner}

(***************************************************************************)
(* CartProduct.save                                                        *)
(***************************************************************************)
\* the attributes a CartProduct instance has (its fields)
CartProductAttrs ==
    {"user", "cart", "content_type", "object_id", "content_object", "quantity",
     "total_price"}

\* lines 144-146: self.total_price = self.qty * self.content_object.price
CartProductSaveRun(line) ==
    IF "qty" \notin CartProductAttrs
    THEN [outcome |-> "AttributeError", pk |-> 0, cartproducts |-> cartproducts]
    ELSE [outcome |-> "ok", pk |-> Len(cartproducts) + 1,
          cartproducts |->
              Append(cartproducts,
                     [line EXCEPT !.total_price =
                         line.quantity * products[line.content_type][line.object_id].price])]

CartProductSave(user, cart, tag, object_id, quantity) ==
    /\ user \in DOMAIN customers
    /\ cart \in DOMAIN carts
    /\ tag \in CT_MODEL_MODEL_CLASS
    /\ object_id \in DOMAIN products[tag]
    /\ LET r == CartProductSaveRun([user |-> user, cart |-> cart, content_type |-> tag,
                                    object_id |-> object_id, quantity |-> quantity,
                                    total_price |-> 0])
       IN /\ cartproducts' = r.cartproducts
          /\ resp' = [NoResp EXCEPT !.op = "CartProduct.save", !.outcome = r.outcome,
                                    !.tag = tag, !.pk = object_id, !.cart = cart,
                                    !.quantity = quantity]
    /\ UNCHANGED <<categories, products, customers, carts, req>>

\* the lines of a cart that reference one product
LinesFor(cart, tag, object_id) ==
    {i \in DOMAIN cartproducts :
        /\ cartproducts[i].cart = cart
        /\ cartproducts[i].content_type = tag
        /\ cartproducts[i].object_id = object_id}

LinesOf(cart) == {i \in DOMAIN cartproducts : cartproducts[i].cart = cart}

(***************************************************************************)
(* AddToCartView.get, statement by statement.                              *)
(***************************************************************************)
\* line 61: content_type.model_class().objects.get_or_create(slug=product_slug)
GetOrCreate(ct, slug) ==
    IF ~HasSlugField(ct)
    THEN [outcome |-> "FieldError", pk |-> 0, created |-> FALSE,
          categories |-> categories, products |-> products]
    ELSE IF WithSlug(Table(ct), slug) # {}
    THEN [outcome |-> "ok", pk |-> CHOOSE i \in WithSlug(Table(ct), slug) : TRUE,
          created |-> FALSE, categories |-> categories, products |-> products]
    ELSE IF ct = "category"
    THEN LET r == CategoryInsert("", slug) IN
         [outcome |-> r.outcome, pk |-> r.pk, created |-> r.outcome = "ok",
          categories |-> r.categories, products |-> products]
    ELSE LET r == ProductSaveRun(ct, 0, [category |-> 0, slug |-> slug, price |-> 0,
                                         image |-> NoImage]) IN
         [outcome |-> r.outcome, pk |-> r.pk, created |-> r.outcome = "ok",
          categories |-> categories, products |-> r.products]

\* the names bound in AddToCartView.get when line 62 runs
AddToCartLocals ==
    {"self", "request", "args", "kwargs", "ct_model", "product_slug", "customer",
     "cart", "content_type", "product"}

\* lines 62-66: CartProduct.objects.create(..., object_id=product_id), then
\* "if created: cart.products.add(cart_product)"
CreateLine(customer, cart, ct, pk) ==
    IF "product_id" \notin AddToCartLocals
    THEN [outcome |-> "NameError", cartproducts |-> cartproducts]
    ELSE LET saved == CartProductSaveRun([user |-> customer, cart |-> cart,
                                          content_type |-> ct, object_id |-> pk,
                                          quantity |-> 1, total_price |-> 0])
         IN  IF saved.outcome # "ok"
             THEN [outcome |-> saved.outcome, cartproducts |-> cartproducts]
             ELSE IF "created" \notin AddToCartLocals
                  THEN [outcome |-> "NameError", cartproducts |-> saved.cartproducts]
                  ELSE [outcome |-> "ok", cartproducts |-> saved.cartproducts]

AddToCartRun(user, tag, slug) ==
    LET fail(o) == [outcome |-> o, cart |-> 0, pk |-> 0, created |-> FALSE,
                    categories |-> categories, products |-> products,
                    cartproducts |-> cartproducts]
        c == CustomerGet(user)
        k == QGet(ActiveCarts(c.pk), "Cart")
        g == GetOrCreate(tag, slug)
        l == CreateLine(c.pk, k.pk, tag, g.pk)
    IN  IF c.outcome # "ok" THEN fail(c.outcome)
        ELSE IF k.outcome # "ok" THEN fail(k.outcome)
        ELSE IF ~IsContentType(tag) THEN [fail("ContentType.DoesNotExist") EXCEPT !.cart = k.pk]
        ELSE IF g.outcome # "ok"
             THEN [outcome |-> g.outcome, cart |-> k.pk, pk |-> 0, created |-> FALSE,
                   categories |-> g.categories, products |-> g.products,
                   cartproducts |-> cartproducts]
             ELSE [outcome |-> l.outcome, cart |-> k.pk, pk |-> g.pk, created |-> g.created,
                   categories |-> g.categories, products |-> g.products,
                   cartproducts |-> l.cartproducts]

\* the number of consecutive identical add_to_cart requests, this one included
Streak(user, tag, slug) ==
    IF resp.op = "add_to_cart" /\ resp.user = user /\ resp.tag = tag /\ resp.slug = slug
    THEN resp.streak + 1
    ELSE 1

AddToCart(user, tag, slug) ==
    /\ Streak(user, tag, slug) <= MaxStreak
    /\ LET r == AddToCartRun(user, tag, slug) IN
       /\ categories' = r.categories
       /\ products' = r.products
       /\ cartproducts' = r.cartproducts
       /\ resp' = [NoResp EXCEPT !.op = "add_to_cart", !.outcome = r.outcome,
                                 !.user = user, !.tag = tag, !.slug = slug,
                                 !.cart = r.cart, !.pk = r.pk, !.created = r.created,
                                 !.streak = Streak(user, tag, slug)]
    /\ UNCHANGED <<customers, carts, req>>

(***************************************************************************)
(* CartView.get and ProductDetailView.dispatch                             *)
(***************************************************************************)
ViewCartRun(user) ==
    LET c == CustomerGet(user)
        k == QGet(OwnedCarts(c.pk), "Cart")
        s == get_categories_for_left_sidebar
    IN  IF c.outcome # "ok" THEN [outcome |-> c.outcome, cart |-> 0]
        ELSE IF k.outcome # "ok" THEN [outcome |-> k.outcome, cart |-> 0]
        ELSE IF s.outcome # "ok" THEN [outcome |-> s.outcome, cart |-> 0]
        ELSE [outcome |-> "ok", cart |-> k.pk]

ViewCart(user) ==
    LET r == ViewCartRun(user) IN
    /\ resp' = [NoResp EXCEPT !.op = "view_cart", !.outcome = r.outcome, !.user = user,
                              !.cart = r.cart]
    /\ UNCHANGED <<store, req>>

\* dispatch picks the model from CT_MODEL_MODEL_CLASS; DetailView.get_object
\* then looks the slug up in model._base_manager.all()
ProductDetailRun(tag, slug) ==
    IF tag \notin CT_MODEL_MODEL_CLASS THEN [outcome |-> "KeyError", pk |-> 0]
    ELSE IF WithSlug(products[tag], slug) = {} THEN [outcome |-> "Http404", pk |-> 0]
    ELSE [outcome |-> "ok", pk |-> CHOOSE i \in WithSlug(products[tag], slug) : TRUE]

ProductDetail(tag, slug) ==
    LET r == ProductDetailRun(tag, slug) IN
    /\ resp' = [NoResp EXCEPT !.op = "product_detail", !.outcome = r.outcome, !.tag = tag,
                              !.slug = slug, !.pk = r.pk]
    /\ UNCHANGED <<store, req>>

(***************************************************************************)
(* LatestProductManager.get_products_for_main_page                         *)
(***************************************************************************)
Min(a, b) == IF a <= b THEN a ELSE b

\* the slice [:5] of line 32
LatestSlice == 5

\* str.startswith
StartsWith(str, prefix) ==
    Len(prefix) <= Len(str) /\ SubSeq(str, 1, Len(prefix)) = prefix

\* order_by('-id'): the primary keys of a table, highest first
OrderByIdDesc(rows) == [i \in 1..Len(rows) |-> Len(rows) + 1 - i]

\* line 32: ct_model.model_class()._base_manager.all().order_by('-id')[:5]
ModelProducts(ct) ==
    LET ids == OrderByIdDesc(Table(ct)) IN
    [i \in 1..Min(Len(ids), LatestSlice) |-> [model |-> ct, id |-> ids[i]]]

\* lines 30-33: the content types whose model is in args, each one's slice appended
RECURSIVE ExtendProducts(_, _)
ExtendProducts(cts, args) ==
    IF cts = <<>> THEN <<>>
    ELSE (IF Head(cts) \in args THEN ModelProducts(Head(cts)) ELSE <<>>)
         \o ExtendProducts(Tail(cts), args)

\* line 39: the sort key, x.__class__._meta.model_name.startswith(with_respect_to)
SortKey(x, with_respect_to) == StartsWith(x.model, with_respect_to)

\* sorted(products, key=..., reverse=True) with a boolean key: the sort is
\* stable, so the True items come first and each group keeps its order
SortedByKeyReverse(seq, with_respect_to) ==
    SelectSeq(seq, LAMBDA x : SortKey(x, with_respect_to))
        \o SelectSeq(seq, LAMBDA x : ~SortKey(x, with_respect_to))

\* the two groups the other way round (reverse=True forgotten)
get_products_for_main_page_ascending(args, with_respect_to) ==
    LET all == ExtendProducts(ContentTypes, args) IN
    IF with_respect_to # "" /\ IsContentType(with_respect_to) /\ with_respect_to \in args
    THEN SelectSeq(all, LAMBDA x : ~SortKey(x, with_respect_to))
             \o SelectSeq(all, LAMBDA x : SortKey(x, with_respect_to))
    ELSE all

\* with_respect_to = "" stands for a missing (None) keyword argument
get_products_for_main_page(args, with_respect_to) ==
    LET all == ExtendProducts(ContentTypes, args) IN
    IF with_respect_to # "" /\ IsContentType(with_respect_to) /\ with_respect_to \in args
    THEN SortedByKeyReverse(all, with_respect_to)
    ELSE all

LatestArgs == {"notebook", "smartphone", "tablet"}

LatestProducts(args, with_respect_to) ==
    /\ resp' = [NoResp EXCEPT !.op = "latest", !.outcome = "ok", !.args = args,
                              !.tag = with_respect_to,
                              !.result = get_products_for_main_page(args, with_respect_to)]
    /\ UNCHANGED <<store, req>>

(***************************************************************************)
(* Two concurrent AddToCartView.get requests, one statement per step.      *)
(***************************************************************************)
Requests == {1, 2}

Idle == [pc |-> "idle", user |-> "", tag |-> "", slug |-> "", customer |-> 0,
         cart |-> 0, pk |-> 0, outcome |-> "none"]

Fail(r, o) == req' = [req EXCEPT ![r].pc = "done", ![r].outcome = o]

\* line 58
ReqCustomer(r) ==
    /\ req[r].pc = "customer"
    /\ LET c == CustomerGet(req[r].user) IN
       IF c.outcome # "ok" THEN Fail(r, c.outcome)
       ELSE req' = [req EXCEPT ![r].pc = "cart", ![r].customer = c.pk]
    /\ UNCHANGED <<store, resp>>

\* line 59
ReqCart(r) ==
    /\ req[r].pc = "cart"
    /\ LET k == QGet(ActiveCarts(req[r].customer), "Cart") IN
       IF k.outcome # "ok" THEN Fail(r, k.outcome)
       ELSE req' = [req EXCEPT ![r].pc = "content_type", ![r].cart = k.pk]
    /\ UNCHANGED <<store, resp>>

\* line 60
ReqContentType(r) ==
    /\ req[r].pc = "content_type"
    /\ IF ~IsContentType(req[r].tag) THEN Fail(r, "ContentType.DoesNotExist")
       ELSE req' = [req EXCEPT ![r].pc = "product"]
    /\ UNCHANGED <<store, resp>>

\* line 61
ReqProduct(r) ==
    /\ req[r].pc = "product"
    /\ LET g == GetOrCreate(req[r].tag, req[r].slug) IN
       /\ categories' = g.categories
       /\ products' = g.products
       /\ IF g.outcome # "ok" THEN Fail(r, g.outcome)
          ELSE req' = [req EXCEPT ![r].pc = "line", ![r].pk = g.pk]
    /\ UNCHANGED <<customers, carts, cartproducts, resp>>

\* lines 62-67
ReqLine(r) ==
    /\ req[r].pc = "line"
    /\ LET l == CreateLine(req[r].customer, req[r].cart, req[r].tag, req[r].pk) IN
       /\ cartproducts' = l.cartproducts
       /\ req' = [req EXCEPT ![r].pc = "done", ![r].outcome = l.outcome]
    /\ UNCHANGED <<categories, products, customers, carts, resp>>

(***************************************************************************)
(* Specifications.                                                         *)
(***************************************************************************)
NoProducts == [t \in CT_MODEL_MODEL_CLASS |-> <<>>]

\* a product row that passed Product.save
SampleProduct(i) ==
    [category |-> 1, slug |-> "p" \o ToString(i), price |-> 999,
     image |-> <<MIN_RESOLUTION[1], MIN_RESOLUTION[2]>>]

SampleProducts(n) == [i \in 1..n |-> SampleProduct(i)]

SampleCategories == <<[name |-> "Noutbuki", slug |-> "s1"]>>

NewCart(owner, in_order) ==
    [owner |-> owner, total_products |-> 0, total_price |-> 0, in_order |-> in_order]

ProductRows(images) ==
    [category : DOMAIN categories, slug : Slugs, price : Prices, image : images]

\* Saving products: every image size around the bounds, on create and on update.
InitSave ==
    /\ categories = SampleCategories
    /\ products = NoProducts
    /\ customers = <<>>
    /\ carts = <<>>
    /\ cartproducts = <<>>
    /\ resp = NoResp
    /\ req = [r \in Requests |-> Idle]

NextSave ==
    \E tag \in CT_MODEL_MODEL_CLASS, pk \in 0..MaxProducts,
       row \in ProductRows(Images \cup {NoImage}) :
        ProductSave(tag, pk, row)

SpecSave == InitSave /\ [][NextSave]_vars

\* one image inside the bounds and one above them
CatalogImages ==
    {<<MIN_RESOLUTION[1], MAX_RESOLUTION[2]>>,
     <<MAX_RESOLUTION[1] + 1, MIN_RESOLUTION[2]>>}

\* The catalogue: categories and products are created and updated and
\* counted; one customer with one active cart adds to the cart.
InitCatalog ==
    /\ categories = <<>>
    /\ products = NoProducts
    /\ customers = <<[user |-> "u1"]>>
    /\ carts = <<NewCart(1, FALSE)>>
    /\ cartproducts = <<>>
    /\ resp = NoResp
    /\ req = [r \in Requests |-> Idle]

NextCatalog ==
    \/ \E name \in CategoryNames, slug \in Slugs : CreateCategory(name, slug)
    \/ \E tag \in CT_MODEL_MODEL_CLASS, pk \in 0..MaxProducts,
          row \in ProductRows(CatalogImages) :
          ProductSave(tag, pk, row)
    \/ Sidebar
    \/ \E tag \in CT_MODEL_MODEL_CLASS \cup {"category"}, slug \in Slugs :
          AddToCart("u1", tag, slug)

SpecCatalog == InitCatalog /\ [][NextCatalog]_vars

\* The carts: customers and carts are created over a fixed catalogue.
InitCart ==
    /\ categories = SampleCategories
    /\ \E n \in 0..1, m \in 0..1 :
          products = [t \in CT_MODEL_MODEL_CLASS |->
                        IF t = "notebook" THEN SampleProducts(n) ELSE SampleProducts(m)]
    /\ customers = <<>>
    /\ carts = <<>>
    /\ cartproducts = <<>>
    /\ resp = NoResp
    /\ req = [r \in Requests |-> Idle]

NextCart ==
    \/ \E user \in Users : CreateCustomer(user)
    \/ \E owner \in 1..MaxCustomers, in_order \in BOOLEAN : CreateCart(owner, in_order)
    \/ \E user \in Users, tag \in Tags, slug \in {"p1", "s2"} : AddToCart(user, tag, slug)
    \/ \E user \in Users : ViewCart(user)
    \/ \E tag \in Tags, slug \in {"p1", "s2"} : ProductDetail(tag, slug)
    \/ \E user \in 1..MaxCustomers, cart \in 1..MaxCarts, tag \in CT_MODEL_MODEL_CLASS,
          quantity \in 1..MaxQuantity : CartProductSave(user, cart, tag, 1, quantity)

SpecCart == InitCart /\ [][NextCart]_vars

\* The main page: get_products_for_main_page over tables of every size.
InitLatest ==
    /\ categories = SampleCategories
    /\ \E n \in 0..MaxLatest, m \in 0..MaxOther :
          products = [t \in CT_MODEL_MODEL_CLASS |->
                        IF t = "notebook" THEN SampleProducts(n) ELSE SampleProducts(m)]
    /\ customers = <<>>
    /\ carts = <<>>
    /\ cartproducts = <<>>
    /\ resp = NoResp
    /\ req = [r \in Requests |-> Idle]

NextLatest ==
    \E args \in SUBSET LatestArgs, with_respect_to \in LatestArgs \cup {""} :
        LatestProducts(args, with_respect_to)

SpecLatest == InitLatest /\ [][NextLatest]_vars

\* Two requests of one customer for one product, their statements interleaved.
InitConc ==
    /\ categories = SampleCategories
    /\ \E n \in 0..1 :
          products = [t \in CT_MODEL_MODEL_CLASS |-> SampleProducts(n)]
    /\ customers = <<[user |-> "u1"]>>
    /\ carts \in {<<>>, <<NewCart(1, FALSE)>>, <<NewCart(1, TRUE)>>,
                  <<NewCart(1, FALSE), NewCart(1, TRUE)>>,
                  <<NewCart(1, FALSE), NewCart(1, FALSE)>>}
    /\ cartproducts = <<>>
    /\ resp = NoResp
    /\ \E tag \in Tags, slug \in {"p1", "s2"} :
          req = [r \in Requests |->
                   [Idle EXCEPT !.pc = "customer", !.user = "u1", !.tag = tag,
                                !.slug = slug]]

NextConc ==
    \E r \in Requests :
        \/ ReqCustomer(r)
        \/ ReqCart(r)
        \/ ReqContentType(r)
        \/ ReqProduct(r)
        \/ ReqLine(r)

SpecConc == InitConc /\ [][NextConc]_vars

(***************************************************************************)
(* Properties.                                                             *)
(***************************************************************************)
\* the last request was add_to_cart by a customer with one active cart, for a
\* product of a known type that exists
AddedExistingProduct ==
    /\ resp.op = "add_to_cart"
    /\ resp.tag \in CT_MODEL_MODEL_CLASS
    /\ WithSlug(products[resp.tag], resp.slug) # {}
    /\ CustomerGet(resp.user).outcome = "ok"
    /\ Cardinality(ActiveCarts(CustomerGet(resp.user).pk)) = 1

AddedCart == CHOOSE c \in ActiveCarts(CustomerGet(resp.user).pk) : TRUE

AddedProduct == CHOOSE i \in WithSlug(products[resp.tag], resp.slug) : TRUE

LinePrice(line) == line.quantity * products[line.content_type][line.object_id].price

\* the sum over a cart's lines of quantity x the product's price
SumLines(cart) ==
    LET lines == SelectSeq(cartproducts, LAMBDA l : l.cart = cart) IN
    SumSeq([i \in DOMAIN lines |-> LinePrice(lines[i])])

\* C1: after n >= 1 add_to_cart calls in a row for one product by a customer
\* with an active cart, the cart holds exactly one line for the product and
\* its quantity is n.
C1_OneLineWithQuantityN ==
    AddedExistingProduct =>
        \E l \in DOMAIN cartproducts :
            /\ LinesFor(AddedCart, resp.tag, AddedProduct) = {l}
            /\ cartproducts[l].quantity = resp.streak

C3_LineTotalOnSave ==
    /\ \A l \in DOMAIN cartproducts : cartproducts[l].total_price = LinePrice(cartproducts[l])
    /\ (resp.op = "CartProduct.save" /\ resp.quantity >= 1) =>
          /\ resp.outcome = "ok"
          /\ \E l \in LinesFor(resp.cart, resp.tag, resp.pk) :
                cartproducts[l].quantity = resp.quantity

ResolutionErrors == {"MinResolutionErrorException", "MaxResolutionErrorException"}

SavedImage == resp.op = "Product.save" /\ resp.image # NoImage

TooLow(image) == image[1] < MIN_RESOLUTION[1] \/ image[2] < MIN_RESOLUTION[2]

TooHigh(image) == image[1] > MAX_RESOLUTION[1] \/ image[2] > MAX_RESOLUTION[2]

InBounds(image) ==
    /\ MIN_RESOLUTION[1] <= image[1] /\ image[1] <= MAX_RESOLUTION[1]
    /\ MIN_RESOLUTION[2] <= image[2] /\ image[2] <= MAX_RESOLUTION[2]

\* C4 as stated: the save passes validation iff both dimensions are within
\* the bounds; it fails with the minimum-resolution error whenever a dimension
\* is below its minimum and with the maximum-resolution error whenever a
\* dimension is above its maximum.
C4_AsStated ==
    SavedImage =>
        /\ resp.outcome \notin ResolutionErrors <=> InBounds(resp.image)
        /\ TooLow(resp.image) => resp.outcome = "MinResolutionErrorException"
        /\ TooHigh(resp.image) => resp.outcome = "MaxResolutionErrorException"

\* C4 amended: the save passes validation iff both dimensions are within the
\* bounds; it fails with the minimum-resolution error whenever a dimension is
\* below its minimum, and with the maximum-resolution error when no dimension
\* is below its minimum and one is above its maximum.
C4_ResolutionValidation ==
    SavedImage =>
        /\ resp.outcome \notin ResolutionErrors <=> InBounds(resp.image)
        /\ TooLow(resp.image) => resp.outcome = "MinResolutionErrorException"
        /\ (~TooLow(resp.image) /\ TooHigh(resp.image))
              => resp.outcome = "MaxResolutionErrorException"

\* an image with one dimension too low and the other too high was rejected
\* while a product that passed validation is persisted
C4_Witness ==
    /\ resp.op = "Product.save"
    /\ resp.image = <<MIN_RESOLUTION[1] - 1, MAX_RESOLUTION[2] + 1>>
    /\ resp.outcome = "MinResolutionErrorException"
    /\ NProducts >= 1

PersistedImagesInBounds ==
    \A t \in CT_MODEL_MODEL_CLASS : \A i \in DOMAIN products[t] :
        products[t][i].image # NoImage /\ InBounds(products[t][i].image)

\* C5: a save that fails image validation, as a create or an update, directly
\* or inside add_to_cart's get_or_create, leaves every table as it was, and
\* every persisted product has an image within the bounds.
C5_FailedSaveChangesNothing ==
    [][/\ (resp'.op \in {"Product.save", "add_to_cart"}
             /\ resp'.outcome \in ResolutionErrors \cup {"ValueError"})
          => store' = store
       /\ PersistedImagesInBounds']_vars

\* an update of a persisted product was rejected for its image
C5_Witness ==
    /\ resp.op = "Product.save"
    /\ resp.pk >= 1
    /\ resp.outcome = "MaxResolutionErrorException"
    /\ NProducts >= 1

\* C6: view_cart returns a cart of the customer with in_order = false when the
\* customer has one, whatever other carts they own, and fails with the missing
\* cart error (Cart.DoesNotExist) when they have none.
C6_ViewCartReturnsActiveCart ==
    (resp.op = "view_cart" /\ CustomerGet(resp.user).outcome = "ok") =>
        IF ActiveCarts(CustomerGet(resp.user).pk) # {}
        THEN resp.outcome = "ok" /\ resp.cart \in ActiveCarts(CustomerGet(resp.user).pk)
        ELSE resp.outcome = "Cart.DoesNotExist"

\* the outcomes that reject a type tag as unknown
UnknownType == {"KeyError", "ContentType.DoesNotExist"}

\* C7: product lookup and add_to_cart reject every tag outside {notebook,
\* smartphone} as an unknown type, resolve no model for it and change nothing;
\* a known tag with a slug no product has fails lookup with not-found.
C7_UnknownTagRejected ==
    /\ (resp.op = "product_detail" /\ resp.tag \notin CT_MODEL_MODEL_CLASS)
          => resp.outcome \in UnknownType
    /\ (resp.op = "product_detail" /\ resp.tag \in CT_MODEL_MODEL_CLASS
           /\ WithSlug(products[resp.tag], resp.slug) = {})
          => resp.outcome = "Http404"
    /\ (resp.op = "add_to_cart" /\ resp.tag \notin CT_MODEL_MODEL_CLASS
           /\ CustomerGet(resp.user).outcome = "ok"
           /\ Cardinality(ActiveCarts(CustomerGet(resp.user).pk)) = 1)
          => /\ resp.outcome \in UnknownType
             /\ resp.pk = 0
             /\ ~resp.created

\* C8: the sidebar call succeeds for any categories and returns one entry per
\* category whose count is the number of notebooks plus the number of
\* smartphones in the category.
C8_SidebarCounts ==
    resp.op = "sidebar" =>
        /\ resp.outcome = "ok"
        /\ DOMAIN resp.result = DOMAIN categories
        /\ \A c \in DOMAIN categories :
              /\ resp.result[c].name = categories[c].name
              /\ resp.result[c].slug = categories[c].slug
              /\ resp.result[c].count =
                    Cardinality(InCategory("notebook", c))
                        + Cardinality(InCategory("smartphone", c))

OfModel(seq, t) == SelectSeq(seq, LAMBDA x : x.model = t)

\* no item of model a after an item of model b
Precede(seq, a, b) ==
    \A i, j \in DOMAIN seq : (seq[i].model = b /\ seq[j].model = a) => j < i

\* C9: the result holds, for each requested type, its (at most) 5 rows with
\* the highest ids, highest first, and nothing else; with a prioritised type
\* that is requested its rows precede all others and each group keeps its
\* order; otherwise the per-type groups come in the order they were fetched.
C9_LatestProducts ==
    resp.op = "latest" =>
        /\ \A x \in Range(resp.result) : x.model \in resp.args \cap CT_MODEL_MODEL_CLASS
        /\ \A t \in CT_MODEL_MODEL_CLASS :
              LET sub == OfModel(resp.result, t)
                  n == Len(products[t])
              IN  /\ Len(sub) = IF t \in resp.args THEN Min(n, LatestSlice) ELSE 0
                  /\ \A i \in DOMAIN sub : sub[i].id \in (n - LatestSlice + 1)..n
                  /\ \A i, j \in DOMAIN sub : i < j => sub[i].id > sub[j].id
        /\ IF resp.tag # "" /\ resp.tag \in resp.args
           THEN \A t \in CT_MODEL_MODEL_CLASS \ {resp.tag} : Precede(resp.result, resp.tag, t)
           ELSE Precede(resp.result, "notebook", "smartphone")

\* smartphones were prioritised over more than five notebooks
C9_Witness ==
    /\ resp.op = "latest"
    /\ resp.tag = "smartphone"
    /\ resp.args = {"notebook", "smartphone"}
    /\ Len(products["notebook"]) > LatestSlice
    /\ Len(products["smartphone"]) >= 2
    /\ Len(resp.result) = LatestSlice + Len(products["smartphone"])

\* C10: two interleaved add_to_cart requests of one customer for one existing
\* product end with one line of quantity 2 and cart aggregates that match it.
C10_NoLostUpdate ==
    (/\ \A r \in Requests : req[r].pc = "done"
     /\ req[1].tag \in CT_MODEL_MODEL_CLASS
     /\ WithSlug(products[req[1].tag], req[1].slug) # {}
     /\ Cardinality(ActiveCarts(1)) = 1)
    => LET cart == CHOOSE c \in ActiveCarts(1) : TRUE
           pk == CHOOSE i \in WithSlug(products[req[1].tag], req[1].slug) : TRUE
       IN  /\ \E l \in DOMAIN cartproducts :
                 /\ LinesFor(cart, req[1].tag, pk) = {l}
                 /\ cartproducts[l].quantity = 2
           /\ carts[cart].total_products = 2
           /\ carts[cart].total_price = 2 * products[req[1].tag][pk].price

====
